---- MODULE Spec2Model ----
(***************************************************************************)
(* Model of the browser front-end of the Amazon/Pinterest automation bot:  *)
(* the ApiClient singleton (src/src/lib/api.ts), the dashboard page        *)
(* (src/src/pages/dashboard.tsx), the landing form (src/unnamed/part_000)  *)
(* and the privacy page (src/src/pages/privacy-policy.tsx).                *)
(*                                                                         *)
(* JavaScript runs every promise continuation (microtask) before the next  *)
(* network event is delivered, so one action of the model is one event     *)
(* handler run to its next network await: a user event or timer callback   *)
(* up to the request it sends, or the delivery of one response through the *)
(* response interceptor, the API operation's try/catch/finally and the     *)
(* calling page's continuation.  The action leaves in `turn` a record of   *)
(* what the handler found and did; EndTurn, the return to the event loop,  *)
(* clears it, and no other handler starts before.                          *)
(*                                                                         *)
(* A value of type string | null is a sequence of length <= 1: Null is     *)
(* <<>> and the string s is <<s>>.                                         *)
(***************************************************************************)
EXTENDS Integers, Sequences, FiniteSets, TLC

VARIABLES
    sessionId,      \* ApiClient.sessionId
    localStorage,   \* the keys session_id and encrypted_credentials
    inflight,       \* requests sent and not yet answered, oldest first
    page,           \* the page component that is mounted
    home,           \* state of the landing form component
    dash,           \* state of the dashboard component
    redirectTimer,  \* a setTimeout of onSubmit is pending
    turn            \* what the handler of the current event-loop turn did

vars == <<sessionId, localStorage, inflight, page, home, dash, redirectTimer,
          turn>>

----------------------------------------------------------------------------
(* Bounds of the model *)

\* requests that may be in flight at the same time
MaxInflight == 2
\* jobs in one job-list response
MaxJobs == 2

----------------------------------------------------------------------------
(* Values *)

Null == <<>>
Some(s) == <<s>>

\* JavaScript truthiness of a string | null value
Truthy(v) == v # Null /\ v[1] # ""

\* HTTP status the response interceptor reacts to
Unauthorized == 401

\* typeof window !== 'undefined': every caller of the client is a browser
\* event handler or effect
HasWindow == TRUE

\* session ids the server may return (SessionResponse.session_id: string)
SessionIds == {"", "s1", "s2"}
\* encrypted blobs the server may return
EncBlobs == {"enc1"}

\* `detail` of an error body: absent, empty, or a message
Details == {Null, Some(""), Some("Invalid or expired session"),
            Some("Error 401: Unauthorized")}

\* statuses of an answered request; 0 stands for no response at all
\* (network failure, 30 s timeout): error.response is undefined
ErrorStatuses == {0, Unauthorized, 500}

Ops == {"startSession", "endSession", "startAutomation", "getJobStatus",
        "getUserJobs", "cancelJob", "getPrivacyPolicy", "healthCheck"}

Method(op) ==
    CASE op = "startSession"     -> "POST"
      [] op = "endSession"       -> "DELETE"
      [] op = "startAutomation"  -> "POST"
      [] op = "getJobStatus"     -> "GET"
      [] op = "getUserJobs"      -> "GET"
      [] op = "cancelJob"        -> "DELETE"
      [] op = "getPrivacyPolicy" -> "GET"
      [] op = "healthCheck"      -> "GET"

\* arg is the job id of getJobStatus and cancelJob, "" otherwise
Url(op, arg) ==
    CASE op = "startSession"     -> "/api/start-session"
      [] op = "endSession"       -> "/api/session"
      [] op = "startAutomation"  -> "/api/start-automation"
      [] op = "getJobStatus"     -> "/api/job-status/" \o arg
      [] op = "getUserJobs"      -> "/api/jobs"
      [] op = "cancelJob"        -> "/api/job/" \o arg
      [] op = "getPrivacyPolicy" -> "/api/privacy-policy"
      [] op = "healthCheck"      -> "/api/health"

\* the fixed message each operation throws when the server gave none
Fallback(op) ==
    CASE op = "startSession"     -> "Failed to start session"
      [] op = "startAutomation"  -> "Failed to start automation"
      [] op = "getJobStatus"     -> "Failed to get job status"
      [] op = "getUserJobs"      -> "Failed to get user jobs"
      [] op = "cancelJob"        -> "Failed to cancel job"
      [] op = "getPrivacyPolicy" -> "Failed to load privacy policy"
      [] op = "healthCheck"      -> "Health check failed"

----------------------------------------------------------------------------
(* Jobs *)

\* the values of created_at the backend reports, with Date.getTime() of
\* each (in seconds, so that the values fit the checker's integers; the
\* sign of a difference is the same as in milliseconds)
DateGetTime ==
    [s \in {"2024-01-01T00:00:00Z", "2024-01-01T00:00:00.000Z",
            "2024-01-02T00:00:00Z"} |->
        CASE s = "2024-01-01T00:00:00Z"     -> 1704067200
          [] s = "2024-01-01T00:00:00.000Z" -> 1704067200
          [] s = "2024-01-02T00:00:00Z"     -> 1704153600]

Jobs ==
    { [job_id |-> "j1", status |-> "running",
       created_at |-> "2024-01-01T00:00:00Z"],
      [job_id |-> "j2", status |-> "completed",
       created_at |-> "2024-01-02T00:00:00Z"],
      [job_id |-> "j3", status |-> "failed",
       created_at |-> "2024-01-01T00:00:00.000Z"] }

\* a job list of a response: no job twice
JobLists ==
    UNION { { l \in [1..n -> Jobs] : \A i, j \in 1..n : i # j => l[i] # l[j] }
            : n \in 0..MaxJobs }

\* a comparator that sorts oldest first
CompareJobsAscending(a, b) ==
    DateGetTime[a.created_at] - DateGetTime[b.created_at]

\* the comparator of loadJobs: negative when a goes before b
CompareJobs(a, b) == DateGetTime[b.created_at] - DateGetTime[a.created_at]

\* Array.prototype.sort is stable: x goes after every element it does not
\* strictly precede
RECURSIVE InsertJob(_, _)
InsertJob(x, l) ==
    IF l = <<>> THEN <<x>>
    ELSE IF CompareJobs(x, Head(l)) < 0 THEN <<x>> \o l
    ELSE <<Head(l)>> \o InsertJob(x, Tail(l))

RECURSIVE SortJobs(_)
SortJobs(l) ==
    IF l = <<>> THEN <<>>
    ELSE InsertJob(l[Len(l)], SortJobs(SubSeq(l, 1, Len(l) - 1)))

----------------------------------------------------------------------------
(* The landing form *)

\* defaultAutomationConfig.categories
DefaultCategories == <<"electronics", "home", "fashion", "health">>

\* the checkboxes the user works with: those of categoryOptions that the
\* default selection ticks
CategoryOptions == {"electronics", "home", "fashion", "health"}

\* current.filter(c => c !== category)
RECURSIVE Without(_, _)
Without(current, category) ==
    IF current = <<>> THEN <<>>
    ELSE IF Head(current) = category THEN Without(Tail(current), category)
    ELSE <<Head(current)>> \o Without(Tail(current), category)

\* current.includes(category)
IncludesCategory(current, category) ==
    \E k \in 1..Len(current) : current[k] = category

\* the array toggleCategory gives to setValue
Toggle(current, category) ==
    IF IncludesCategory(current, category)
    THEN Without(current, category)
    ELSE Append(current, category)

\* minLength of session_password
MinLength == 8

\* what the user may have typed into the three text inputs
Forms ==
    [pinterest_token : {"", "tok"},
     amazon_tag : {"", "me-20"},
     session_password : {"", "1234567", "12345678"}]

\* the rules given to register: required on the three inputs, minLength
\* on session_password
Valid(form) ==
    /\ form.pinterest_token # ""
    /\ form.amazon_tag # ""
    /\ form.session_password # ""
    /\ Len(form.session_password) >= MinLength

\* disabled={loading || !selectedCategories?.length}
SubmitDisabled(h) == h.loading \/ Len(h.categories) = 0

\* the Credentials onSubmit builds from the form data
CredentialsOf(form) ==
    [pinterest_token |-> form.pinterest_token,
     amazon_tag |-> form.amazon_tag,
     session_password |-> form.session_password]

----------------------------------------------------------------------------
(* localStorage *)

EmptyStorage == [session_id |-> Null, encrypted_credentials |-> Null]

SetItem(store, key, value) == [store EXCEPT ![key] = Some(value)]
RemoveItem(store, key) == [store EXCEPT ![key] = Null]

\* the two removeItem calls of the response interceptor and of endSession
ClearSession(store) ==
    IF HasWindow
    THEN RemoveItem(RemoveItem(store, "session_id"), "encrypted_credentials")
    ELSE store

\* a startSession that persists the session id alone
StoreSessionIdOnly(store, sid, enc) == SetItem(store, "session_id", sid)

\* a startSession that persists the session password beside the session id
StoreSessionPassword(store, sid, enc) ==
    SetItem(SetItem(store, "session_id", sid),
            "encrypted_credentials", "12345678")

\* the two setItem calls of startSession
StoreSession(store, sid, enc) ==
    IF HasWindow
    THEN SetItem(SetItem(store, "session_id", sid), "encrypted_credentials", enc)
    ELSE store

\* the constructor: a saved session id is adopted when it is truthy
LoadSession(store) ==
    IF HasWindow /\ Truthy(store.session_id) THEN store.session_id ELSE Null

----------------------------------------------------------------------------
(* ApiClient *)

\* an authentication test by truthiness
IsAuthenticatedTruthy(sid) == Truthy(sid)

IsAuthenticated(sid) == sid # Null

\* a request interceptor that tests the session id against null
AuthHeaderWhenHeld(sid) ==
    IF sid # Null THEN Some("Bearer " \o sid[1]) ELSE Null

\* request interceptor: the Authorization header of a request sent while
\* the client holds sid (Null: no header)
AuthHeader(sid) == IF Truthy(sid) THEN Some("Bearer " \o sid[1]) ELSE Null

\* a request as it leaves the request interceptor.  caller is the page
\* function awaiting it, via the call site of loadJobs, live whether the
\* component that awaits it is still mounted, overtaken whether a job-list
\* request issued after it has already been answered and displayed, body
\* the credentials it carries (Null: none)
NewRequest(op, arg, sid, caller, via, live) ==
    [op |-> op, method |-> Method(op), url |-> Url(op, arg),
     auth |-> AuthHeader(sid), caller |-> caller, via |-> via,
     live |-> live, overtaken |-> FALSE, body |-> Null]

\* startSession(credentials) and startAutomation({credentials, config}):
\* the request with the credentials in its body
WithCredentials(r, credentials) == [r EXCEPT !.body = Some(credentials)]

\* what the network may answer
OkResponses(op) ==
    CASE op = "startSession" ->
            { [status |-> 200, detail |-> Null, session_id |-> s,
               encrypted_credentials |-> e, jobs |-> <<>>]
              : s \in SessionIds, e \in EncBlobs }
      [] op = "getUserJobs" ->
            { [status |-> 200, detail |-> Null, session_id |-> "",
               encrypted_credentials |-> "", jobs |-> l] : l \in JobLists }
      [] OTHER ->
            { [status |-> 200, detail |-> Null, session_id |-> "",
               encrypted_credentials |-> "", jobs |-> <<>>] }

MakeError(st, d) ==
    [status |-> st, detail |-> d, session_id |-> "",
     encrypted_credentials |-> "", jobs |-> <<>>]

\* a failure without a response has no body
ErrorResponses ==
    { MakeError(st, d) : st \in ErrorStatuses \ {0}, d \in Details }
    \cup { MakeError(0, Null) }

Responses(op) == OkResponses(op) \cup ErrorResponses

\* axios resolves a response with a 2xx status and rejects every other
IsOk(resp) == resp.status >= 200 /\ resp.status < 300

\* error.response?.data?.detail
ResponseDetail(resp) == IF resp.status = 0 THEN Null ELSE resp.detail

\* a response interceptor that clears localStorage only
InterceptSessionIdKept(resp, sid) == sid

\* a response interceptor that drops the session on every failure
InterceptSessionIdAnyError(resp, sid) == Null

\* response interceptor, rejected branch: the session id afterwards
InterceptSessionId(resp, sid) ==
    IF resp.status = Unauthorized THEN Null ELSE sid

\* response interceptor, rejected branch: localStorage afterwards
InterceptStorage(resp, store) ==
    IF resp.status = Unauthorized THEN ClearSession(store) ELSE store

\* operations that ignore the body of the failure
ErrorMessageFixed(op, resp) == Fallback(op)

\* the message of the Error an operation throws for a failed request
ErrorMessage(op, resp) ==
    IF op \in {"getPrivacyPolicy", "healthCheck"}
    THEN Fallback(op)
    ELSE IF Truthy(ResponseDetail(resp))
         THEN ResponseDetail(resp)[1]
         ELSE Fallback(op)

\* the session id after the operation has handled the response
SessionIdAfter(op, resp, sid) ==
    CASE op = "endSession" -> Null
      [] op = "startSession" /\ IsOk(resp) -> Some(resp.session_id)
      [] OTHER -> IF IsOk(resp) THEN sid ELSE InterceptSessionId(resp, sid)

\* an endSession that clears localStorage after its try block, not in a
\* finally block
StorageAfterNoFinally(op, resp, store) ==
    CASE op = "endSession" ->
            IF IsOk(resp) THEN ClearSession(store)
            ELSE InterceptStorage(resp, store)
      [] op = "startSession" /\ IsOk(resp) ->
            StoreSession(store, resp.session_id, resp.encrypted_credentials)
      [] OTHER -> IF IsOk(resp) THEN store ELSE InterceptStorage(resp, store)

\* localStorage after the operation has handled the response
StorageAfter(op, resp, store) ==
    CASE op = "endSession" ->
            ClearSession(IF IsOk(resp) THEN store
                         ELSE InterceptStorage(resp, store))
      [] op = "startSession" /\ IsOk(resp) ->
            StoreSession(store, resp.session_id, resp.encrypted_credentials)
      [] OTHER -> IF IsOk(resp) THEN store ELSE InterceptStorage(resp, store)

\* what the operation's promise does: Null when it resolves, the message
\* of the Error when it rejects
Thrown(op, resp) ==
    IF op = "endSession" \/ IsOk(resp) THEN Null
    ELSE Some(ErrorMessage(op, resp))

\* the catch block of endSession: console.error
Logged(op, resp) == op = "endSession" /\ ~IsOk(resp)

\* String.prototype.includes
Includes(s, sub) ==
    \E i \in 1..(Len(s) - Len(sub) + 1) : SubSeq(s, i, i + Len(sub) - 1) = sub

----------------------------------------------------------------------------
(* Observations of one handler run *)

\* act: the handler; req, resp: the request answered and its response (at
\* most one); before: the state the handler found; settled: whether an
\* ApiClient promise settled in the run (the answered request's, or that of
\* an endSession call that sends nothing); logged: whether the operation
\* wrote the failure to the console; thrown: the message the promise
\* rejected with; sent: the requests the run sent; toasts: the
\* notifications it showed; pushed: the routes it gave router.push; form:
\* the values of the text inputs when the run was a submission of the form
Observe(act, req, resp, settled, thrown, sent, toasts, pushed) ==
    << [act |-> act, req |-> req, resp |-> resp,
        before |-> [sessionId |-> sessionId, localStorage |-> localStorage,
                    dash |-> dash, home |-> home],
        form |-> Null,
        settled |-> settled,
        logged |-> (req # <<>> /\ Logged(req[1].op, resp[1])),
        thrown |-> thrown, sent |-> sent, toasts |-> toasts,
        pushed |-> pushed] >>

\* a run that answers no request and settles no promise
ObserveSend(act, sent, pushed) ==
    Observe(act, <<>>, <<>>, FALSE, Null, sent, <<>>, pushed)

Toast(kind, msg) == <<kind, msg>>

\* no handler is running
Idle == turn = <<>>

\* the handler returns to the event loop
EndTurn ==
    /\ ~Idle
    /\ turn' = <<>>
    /\ UNCHANGED <<sessionId, localStorage, inflight, page, home, dash,
                   redirectTimer>>

----------------------------------------------------------------------------
(* Initial state: the module has been loaded and `new ApiClient()` has run *)

\* what an earlier page life may have left: nothing, or the two keys a
\* successful startSession wrote (Reload reaches the other saved sessions)
SavedStorages ==
    {EmptyStorage} \cup
    { StoreSession(EmptyStorage, "s1", e) : e \in EncBlobs }

InitDash ==
    [jobs |-> <<>>, loading |-> TRUE, refreshing |-> FALSE, interval |-> FALSE]

\* useState(false) and the form's defaultValues
InitHome == [loading |-> FALSE, categories |-> DefaultCategories]

Init ==
    /\ localStorage \in SavedStorages
    /\ sessionId = LoadSession(localStorage)
    /\ inflight = <<>>
    /\ page = "none"
    /\ home = InitHome
    /\ dash = InitDash
    /\ redirectTimer = FALSE
    /\ turn = <<>>

\* the tab is reloaded or opened anew: pending requests and timers die with
\* the old page, the module is loaded again and the constructor runs
Reload ==
    /\ Idle
    /\ sessionId' = LoadSession(localStorage)
    /\ inflight' = <<>>
    /\ page' = "none"
    /\ home' = InitHome
    /\ dash' = InitDash
    /\ redirectTimer' = FALSE
    /\ turn' = ObserveSend("Reload", <<>>, <<>>)
    /\ UNCHANGED localStorage

----------------------------------------------------------------------------
(* Pages *)

Room == Len(inflight) < MaxInflight

\* unmounting a page: its in-flight continuations now belong to a component
\* that is gone
Orphan(reqs, callers) ==
    [i \in 1..Len(reqs) |->
        IF reqs[i].caller \in callers THEN [reqs[i] EXCEPT !.live = FALSE]
        ELSE reqs[i]]

PageCallers(p) ==
    CASE p = "dashboard" -> {"loadJobs", "handleCancelJob", "handleEndSession"}
      [] p = "home"      -> {"onSubmit"}
      [] p = "privacy"   -> {"loadPrivacyPolicy"}
      [] OTHER           -> {}

\* an effect of the dashboard that fetches and polls after its redirect
MountDashboardUnchecked(rest, act) ==
    LET r == NewRequest("getUserJobs", "", sessionId, "loadJobs", "mount",
                        TRUE) IN
    /\ Len(rest) < MaxInflight
    /\ dash' = [InitDash EXCEPT !.interval = TRUE]
    /\ inflight' = Append(rest, r)
    /\ turn' = ObserveSend(act, <<r>>,
                           IF IsAuthenticated(sessionId) THEN <<>>
                           ELSE <<"/">>)

\* the effect of the dashboard: redirect when not authenticated, otherwise
\* loadJobs() and setInterval(loadJobs, 5000)
MountDashboard(rest, act) ==
    IF ~IsAuthenticated(sessionId)
    THEN /\ dash' = InitDash
         /\ inflight' = rest
         /\ turn' = ObserveSend(act, <<>>, <<"/">>)
    ELSE LET r == NewRequest("getUserJobs", "", sessionId, "loadJobs",
                             "mount", TRUE) IN
         /\ Len(rest) < MaxInflight
         /\ dash' = [InitDash EXCEPT !.interval = TRUE]
         /\ inflight' = Append(rest, r)
         /\ turn' = ObserveSend(act, <<r>>, <<>>)

\* the effect of the landing page: redirect when authenticated
MountHome(rest, act) ==
    /\ dash' = InitDash
    /\ inflight' = rest
    /\ turn' = ObserveSend(act, <<>>, IF IsAuthenticated(sessionId)
                                      THEN <<"/dashboard">> ELSE <<>>)

\* the effect of the privacy page: loadPrivacyPolicy()
MountPrivacy(rest, act) ==
    LET r == NewRequest("getPrivacyPolicy", "", sessionId,
                        "loadPrivacyPolicy", "", TRUE) IN
    /\ Len(rest) < MaxInflight
    /\ dash' = InitDash
    /\ inflight' = Append(rest, r)
    /\ turn' = ObserveSend(act, <<r>>, <<>>)

\* the current page is unmounted (the cleanup of the dashboard's effect
\* clears the interval) and page p is mounted with fresh state
Navigate(p, act) ==
    LET rest == Orphan(inflight, PageCallers(page)) IN
    /\ Idle
    /\ page' = p
    /\ home' = InitHome
    /\ CASE p = "dashboard" -> MountDashboard(rest, act)
         [] p = "home"      -> MountHome(rest, act)
         [] p = "privacy"   -> MountPrivacy(rest, act)
    /\ UNCHANGED <<sessionId, localStorage>>

\* the user follows a link, goes back or forward, or a router.push lands
GoTo(p) ==
    /\ p # page
    /\ Navigate(p, "GoTo")
    /\ UNCHANGED redirectTimer

\* the setTimeout of onSubmit fires: router.push('/dashboard').  The timer
\* is not cleared when the form unmounts
RedirectTimeout ==
    /\ redirectTimer
    /\ redirectTimer' = FALSE
    /\ IF page = "dashboard"
       THEN /\ Idle
            /\ turn' = ObserveSend("RedirectTimeout", <<>>, <<"/dashboard">>)
            /\ UNCHANGED <<sessionId, localStorage, inflight, page, home, dash>>
       ELSE Navigate("dashboard", "RedirectTimeout")

----------------------------------------------------------------------------
(* Handlers that send a request *)

\* a checkbox of the categories section is clicked: toggleCategory
ToggleCategory(category) ==
    /\ Idle
    /\ page = "home"
    /\ home' = [home EXCEPT !.categories = Toggle(@, category)]
    /\ turn' = ObserveSend("ToggleCategory", <<>>, <<>>)
    /\ UNCHANGED <<sessionId, localStorage, inflight, page, dash,
                   redirectTimer>>

\* the record of a run that was a submission of the form
ObserveSubmit(form, sent) ==
    << [ObserveSend("Submit", sent, <<>>)[1] EXCEPT !.form = Some(form)] >>

\* a submission of the form holding `form` in its text inputs; runs tells
\* whether onSubmit is run (then up to `await startSession`)
Submission(form, runs) ==
    LET r == WithCredentials(NewRequest("startSession", "", sessionId,
                                        "onSubmit", "", TRUE),
                             CredentialsOf(form)) IN
    /\ Idle
    /\ page = "home"
    /\ IF runs
       THEN /\ Room
            /\ home' = [home EXCEPT !.loading = TRUE]
            /\ inflight' = Append(inflight, r)
            /\ turn' = ObserveSubmit(form, <<r>>)
       ELSE /\ turn' = ObserveSubmit(form, <<>>)
            /\ UNCHANGED <<home, inflight>>
    /\ UNCHANGED <<sessionId, localStorage, page, dash, redirectTimer>>

\* a submit button that only loading disables
SubmitAnyCategories(form) == Submission(form, ~home.loading /\ Valid(form))

\* a handleSubmit that runs onSubmit without validating
SubmitUnvalidated(form) == Submission(form, ~SubmitDisabled(home))

\* the user submits the landing form (a click on the submit button, or
\* Enter in an input).  A disabled submit button submits nothing;
\* handleSubmit validates and runs onSubmit only for valid data
Submit(form) == Submission(form, ~SubmitDisabled(home) /\ Valid(form))

\* a timer callback that skips the tick while a manual refresh is running
TickUnlessRefreshing ==
    LET r == NewRequest("getUserJobs", "", sessionId, "loadJobs", "tick", TRUE) IN
    /\ Idle
    /\ dash.interval
    /\ ~dash.refreshing
    /\ Room
    /\ inflight' = Append(inflight, r)
    /\ turn' = ObserveSend("Tick", <<r>>, <<>>)
    /\ UNCHANGED <<sessionId, localStorage, page, home, dash, redirectTimer>>

\* the setInterval callback of the dashboard: loadJobs
Tick ==
    LET r == NewRequest("getUserJobs", "", sessionId, "loadJobs", "tick", TRUE) IN
    /\ Idle
    /\ dash.interval
    /\ Room
    /\ inflight' = Append(inflight, r)
    /\ turn' = ObserveSend("Tick", <<r>>, <<>>)
    /\ UNCHANGED <<sessionId, localStorage, page, home, dash, redirectTimer>>

\* the dashboard's buttons are rendered once loading is false
DashReady == Idle /\ page = "dashboard" /\ ~dash.loading

\* the refresh button (disabled while refreshing): handleRefresh
Refresh ==
    LET r == NewRequest("getUserJobs", "", sessionId, "loadJobs", "refresh",
                        TRUE) IN
    /\ DashReady
    /\ ~dash.refreshing
    /\ Room
    /\ dash' = [dash EXCEPT !.refreshing = TRUE]
    /\ inflight' = Append(inflight, r)
    /\ turn' = ObserveSend("Refresh", <<r>>, <<>>)
    /\ UNCHANGED <<sessionId, localStorage, page, home, redirectTimer>>

\* the cancel button of a displayed running or queued job: handleCancelJob
CancelJob(k) ==
    LET r == NewRequest("cancelJob", dash.jobs[k].job_id, sessionId,
                        "handleCancelJob", "", TRUE) IN
    /\ DashReady
    /\ dash.jobs[k].status \in {"running", "queued"}
    /\ Room
    /\ inflight' = Append(inflight, r)
    /\ turn' = ObserveSend("CancelJob", <<r>>, <<>>)
    /\ UNCHANGED <<sessionId, localStorage, page, home, dash, redirectTimer>>

\* endSession up to its await: the DELETE is sent when the session id is
\* truthy; otherwise the operation runs to its end at once (then the caller
\* of kind "handleEndSession" shows its notification and redirects)
EndSessionCall(caller, act) ==
    LET r == NewRequest("endSession", "", sessionId, caller, "", TRUE) IN
    IF Truthy(sessionId)
    THEN /\ Room
         /\ inflight' = Append(inflight, r)
         /\ turn' = ObserveSend(act, <<r>>, <<>>)
         /\ UNCHANGED <<sessionId, localStorage>>
    ELSE /\ sessionId' = Null
         /\ localStorage' = ClearSession(localStorage)
         /\ turn' = Observe(act, <<>>, <<>>, TRUE, Null, <<>>,
                            IF caller = "handleEndSession"
                            THEN <<Toast("success",
                                         "Session ended successfully")>>
                            ELSE <<>>,
                            IF caller = "handleEndSession"
                            THEN <<"/">> ELSE <<>>)
         /\ UNCHANGED inflight

\* the end-session button: handleEndSession
EndSession ==
    /\ DashReady
    /\ EndSessionCall("handleEndSession", "EndSession")
    /\ UNCHANGED <<page, home, dash, redirectTimer>>

\* the credentials a direct caller passes
DirectCredentials ==
    [pinterest_token |-> "tok", amazon_tag |-> "me-20",
     session_password |-> "12345678"]

\* an operation of the exported client called by code other than the pages
\* (getJobStatus and healthCheck have no caller among them), up to its await
Call(op, arg) ==
    LET q == NewRequest(op, arg, sessionId, "direct", "", TRUE)
        r == IF op \in {"startSession", "startAutomation"}
             THEN WithCredentials(q, DirectCredentials) ELSE q
    IN
    /\ Idle
    /\ IF op = "endSession"
       THEN EndSessionCall("direct", "Call")
       ELSE /\ Room
            /\ inflight' = Append(inflight, r)
            /\ turn' = ObserveSend("Call", <<r>>, <<>>)
            /\ UNCHANGED <<sessionId, localStorage>>
    /\ UNCHANGED <<page, home, dash, redirectTimer>>

----------------------------------------------------------------------------
(* Delivery of a response and the continuations it resumes *)

RemoveAt(q, i) == SubSeq(q, 1, i - 1) \o SubSeq(q, i + 1, Len(q))

\* `error.message || fallback` of the pages' catch blocks
MessageOr(msg, fallback) == IF msg # "" THEN msg ELSE fallback

\* catch block of loadJobs: the notification for a rejected getUserJobs
LoadJobsToasts(msg) ==
    IF ~Includes(msg, "401")
    THEN <<Toast("error", "Failed to load jobs")>>
    ELSE <<>>

\* the notifications of the continuation (template arguments left out)
Toasts(req, resp) ==
    LET thrown == Thrown(req.op, resp) IN
    CASE req.caller = "onSubmit" ->
            IF thrown # Null
            THEN <<Toast("error",
                         MessageOr(thrown[1], "Failed to start automation"))>>
            ELSE IF req.op = "startSession"
                 THEN <<Toast("success", "Session started!")>>
                 ELSE <<Toast("success", "Automation started!")>>
      [] req.caller = "loadJobs" ->
            IF thrown # Null THEN LoadJobsToasts(thrown[1]) ELSE <<>>
      [] req.caller = "handleCancelJob" ->
            IF thrown # Null
            THEN <<Toast("error", MessageOr(thrown[1], "Failed to cancel job"))>>
            ELSE <<Toast("success", "Job cancelled successfully")>>
      [] req.caller = "handleEndSession" ->
            <<Toast("success", "Session ended successfully")>>
      [] OTHER -> <<>>

\* the request the continuation sends next, with the session id sid held
\* by then: startAutomation after startSession, loadJobs after cancelJob
Sent(req, resp, sid) ==
    IF Thrown(req.op, resp) # Null THEN <<>>
    ELSE CASE req.caller = "onSubmit" /\ req.op = "startSession" ->
                <<[NewRequest("startAutomation", "", sid, "onSubmit", "",
                              req.live) EXCEPT !.body = req.body]>>
           [] req.caller = "handleCancelJob" ->
                <<NewRequest("getUserJobs", "", sid, "loadJobs", "cancel",
                             req.live)>>
           [] OTHER -> <<>>

\* a loadJobs that drops the answer of a request a later one has overtaken
DashAfterNewestOnly(req, resp, d) ==
    IF req.caller = "loadJobs" /\ req.live
    THEN [d EXCEPT !.jobs = IF IsOk(resp) /\ ~req.overtaken
                            THEN SortJobs(resp.jobs) ELSE @,
                   !.loading = FALSE,
                   !.refreshing = FALSE]
    ELSE d

\* a loadJobs whose setters also write the state of a component that is gone
DashAfterUnmounted(req, resp, d) ==
    IF req.caller = "loadJobs"
    THEN [d EXCEPT !.jobs = IF IsOk(resp) THEN SortJobs(resp.jobs) ELSE @,
                   !.loading = FALSE,
                   !.refreshing = FALSE]
    ELSE d

\* loadJobs after its await; the useState setters of a component that is
\* gone do nothing
DashAfter(req, resp, d) ==
    IF req.caller = "loadJobs" /\ req.live
    THEN [d EXCEPT !.jobs = IF IsOk(resp) THEN SortJobs(resp.jobs) ELSE @,
                   !.loading = FALSE,
                   !.refreshing = FALSE]
    ELSE d

\* the finally block of onSubmit
HomeAfter(req, resp, h) ==
    IF req.caller = "onSubmit" /\ req.live
       /\ (req.op = "startAutomation" \/ ~IsOk(resp))
    THEN [h EXCEPT !.loading = FALSE]
    ELSE h

\* an onSubmit that schedules the redirect in its finally block
TimerAfterAnyAnswer(req, resp, t) ==
    IF req.caller = "onSubmit" /\ req.op = "startAutomation"
    THEN TRUE
    ELSE t

\* the setTimeout of onSubmit after both calls succeeded
TimerAfter(req, resp, t) ==
    IF req.caller = "onSubmit" /\ req.op = "startAutomation" /\ IsOk(resp)
    THEN TRUE
    ELSE t

\* a loadJobs that sends the user to the landing page on a 401
PushedOnUnauthorized(req, resp) ==
    IF req.caller = "handleEndSession"
       \/ (req.caller = "loadJobs" /\ resp.status = Unauthorized)
    THEN <<"/">> ELSE <<>>

\* router.push('/') of handleEndSession
Pushed(req, resp) ==
    IF req.caller = "handleEndSession" THEN <<"/">> ELSE <<>>

\* a job-list answer that has been displayed overtakes the job-list
\* requests of the same component issued before it
Overtake(q, i) ==
    [k \in 1..Len(q) |->
        IF k < i /\ q[k].caller = "loadJobs" /\ q[k].live
        THEN [q[k] EXCEPT !.overtaken = TRUE]
        ELSE q[k]]

\* the handler run that the answer resp to the i-th request in flight
\* starts, leaving the session id sid and the store `store`
Delivery(i, resp, sid, store) ==
    LET req  == inflight[i]
        sent == Sent(req, resp, sid)
        q    == IF req.caller = "loadJobs" /\ req.live /\ IsOk(resp)
                THEN Overtake(inflight, i) ELSE inflight
    IN
    /\ Idle
    /\ sessionId' = sid
    /\ localStorage' = store
    /\ inflight' = RemoveAt(q, i) \o sent
    /\ dash' = DashAfter(req, resp, dash)
    /\ home' = HomeAfter(req, resp, home)
    /\ redirectTimer' = TimerAfter(req, resp, redirectTimer)
    /\ turn' = Observe("Respond", <<req>>, <<resp>>, TRUE,
                       Thrown(req.op, resp), sent, Toasts(req, resp),
                       Pushed(req, resp))
    /\ UNCHANGED page

\* a response interceptor that clears the session on a 401 only when the
\* request was sent under the session held now
RespondUnlessStale(i, resp) ==
    LET stale == /\ resp.status = Unauthorized
                 /\ inflight[i].auth # AuthHeader(sessionId)
    IN
    Delivery(i, resp,
             IF stale THEN sessionId
             ELSE SessionIdAfter(inflight[i].op, resp, sessionId),
             IF stale THEN localStorage
             ELSE StorageAfter(inflight[i].op, resp, localStorage))

\* the network answers the i-th request in flight with resp: the response
\* interceptor, the operation's try/catch/finally and the continuation of
\* the page function awaiting it run
Respond(i, resp) ==
    Delivery(i, resp,
             SessionIdAfter(inflight[i].op, resp, sessionId),
             StorageAfter(inflight[i].op, resp, localStorage))

----------------------------------------------------------------------------
(* Specifications *)

\* the argument the callers pass to an operation that takes a job id
ArgsOf(op) == IF op \in {"getJobStatus", "cancelJob"} THEN {"j1"} ELSE {""}

Deliver ==
    \E i \in 1..Len(inflight) : \E resp \in Responses(inflight[i].op) :
        Respond(i, resp)

\* the application: the three pages drive the client
Next ==
    \/ \E p \in {"home", "dashboard", "privacy"} : GoTo(p)
    \/ RedirectTimeout
    \/ \E category \in CategoryOptions : ToggleCategory(category)
    \/ \E form \in Forms : Submit(form)
    \/ Tick
    \/ Refresh
    \/ \E k \in 1..Len(dash.jobs) : CancelJob(k)
    \/ EndSession
    \/ Deliver
    \/ EndTurn
    \/ Reload

Spec == Init /\ [][Next]_vars

\* the client alone, under every sequence of calls of its operations
ApiNext ==
    \/ \E op \in Ops : \E arg \in ArgsOf(op) : Call(op, arg)
    \/ Deliver
    \/ EndTurn
    \/ Reload

ApiSpec == Init /\ [][ApiNext]_vars

\* the dashboard and the client
DashNext ==
    \/ \E p \in {"home", "dashboard"} : GoTo(p)
    \/ Tick
    \/ Refresh
    \/ \E k \in 1..Len(dash.jobs) : CancelJob(k)
    \/ EndSession
    \/ Deliver
    \/ EndTurn
    \/ Reload

DashSpec == Init /\ [][DashNext]_vars

\* the landing form with its default categories, the redirect it
\* schedules, and the client
HomeNext ==
    \/ GoTo("home")
    \/ RedirectTimeout
    \/ \E form \in Forms : Submit(form)
    \/ Deliver
    \/ EndTurn
    \/ Reload

HomeSpec == Init /\ [][HomeNext]_vars

\* the landing form with its checkboxes, and the client
FormNext ==
    \/ GoTo("home")
    \/ \E category \in CategoryOptions : ToggleCategory(category)
    \/ \E form \in Forms : Submit(form)
    \/ Deliver
    \/ EndTurn

FormSpec == Init /\ [][FormNext]_vars

----------------------------------------------------------------------------
(* Properties.  The state at the end of a handler run carries the run's    *)
(* record in `turn`, so a property of "the state right after X" is an      *)
(* invariant over the states whose record says X.                          *)

InTurn == turn # <<>>

\* the handler run answered a request
Answered == InTurn /\ turn[1].req # <<>>

\* the handler run was endSession running to its end without a request
EndedWithoutRequest ==
    InTurn /\ turn[1].req = <<>> /\ turn[1].settled

\* both persisted keys are absent
StorageCleared ==
    /\ localStorage.session_id = Null
    /\ localStorage.encrypted_credentials = Null

\* the requests the handler run sent
SentNow == IF InTurn THEN {turn[1].sent[k] : k \in 1..Len(turn[1].sent)} ELSE {}

\* C1: in the state right after a 401 answer to any request has been
\* handled, the session id is null and both persisted keys are absent, the
\* failure has reached the operation that made the request (it rejects
\* with an error, or, for endSession, logs it), nothing was re-sent, and a
\* request sent while the session id is null carries no Authorization
\* header.
C1_UnauthorizedClearsSession ==
    /\ (Answered /\ turn[1].resp[1].status = Unauthorized) =>
          /\ sessionId = Null
          /\ StorageCleared
          /\ IF turn[1].req[1].op = "endSession"
             THEN turn[1].logged
             ELSE turn[1].thrown # Null
          /\ turn[1].sent = <<>>
    /\ sessionId = Null => \A r \in SentNow : r.auth = Null

\* C1 witness: a 401 answered a request while a session was held in memory
\* and persisted, and the session is gone.
C1_Witness ==
    /\ Answered
    /\ turn[1].resp[1].status = Unauthorized
    /\ turn[1].before.sessionId # Null
    /\ turn[1].before.localStorage.session_id # Null
    /\ turn[1].before.localStorage.encrypted_credentials # Null
    /\ sessionId = Null
    /\ StorageCleared

\* C2: isAuthenticated() is true right after startSession resolved, and
\* false right after endSession resolved and right after a 401 answer was
\* handled, whatever came before.
C2_IsAuthenticatedFollowsSession ==
    /\ (Answered /\ turn[1].req[1].op = "startSession"
        /\ IsOk(turn[1].resp[1])) => IsAuthenticated(sessionId)
    /\ (Answered /\ turn[1].req[1].op = "endSession") =>
          ~IsAuthenticated(sessionId)
    /\ EndedWithoutRequest => ~IsAuthenticated(sessionId)
    /\ (Answered /\ turn[1].resp[1].status = Unauthorized) =>
          ~IsAuthenticated(sessionId)

\* C2 witness: startSession resolved while no session was held, with a
\* second request still in flight.
C2_Witness ==
    /\ Answered
    /\ turn[1].req[1].op = "startSession"
    /\ IsOk(turn[1].resp[1])
    /\ ~IsAuthenticated(turn[1].before.sessionId)
    /\ IsAuthenticated(sessionId)
    /\ inflight # <<>>

\* C3: every request carries 'Authorization: Bearer <session id>' when
\* isAuthenticated() is true at send time and no Authorization header
\* otherwise, for every session id startSession can install.
C3_BearerIffAuthenticated ==
    \A r \in SentNow :
        r.auth = IF IsAuthenticated(sessionId)
                 THEN Some("Bearer " \o sessionId[1])
                 ELSE Null

PublicUrls == {"/api/start-session", "/api/privacy-policy", "/api/health"}

\* C4 as claimed: requests to start-session, privacy-policy and health
\* carry no bearer header in any reachable state.
C4_PublicEndpointsNeverCarryBearer ==
    \A r \in SentNow : r.url \in PublicUrls => r.auth = Null

\* C4 as amended: a request to start-session, privacy-policy or health
\* carries no Authorization header when the session id held at send time
\* is null or empty, and 'Authorization: Bearer <session id>' when a
\* non-empty session id is held.
C4_PublicEndpointsCarryHeldBearer ==
    \A r \in SentNow :
        r.url \in PublicUrls =>
            r.auth = IF sessionId # Null /\ sessionId[1] # ""
                     THEN <<"Bearer " \o sessionId[1]>>
                     ELSE <<>>

\* C4 witness: a start-session request was sent with a bearer header while
\* a session was held.
C4_Witness ==
    \E r \in SentNow :
        /\ r.url = "/api/start-session"
        /\ sessionId = <<"s1">>
        /\ r.auth = <<"Bearer s1">>

\* C5: endSession resolves without an error and leaves the session id null
\* and both persisted keys absent, whether the DELETE succeeded, failed
\* without a response, failed with an error status, or was not sent; and a
\* DELETE /api/session is sent only when a session id was held.
C5_EndSessionAlwaysClears ==
    /\ ((Answered /\ turn[1].req[1].op = "endSession") \/ EndedWithoutRequest)
          => /\ turn[1].settled
             /\ turn[1].thrown = Null
             /\ sessionId = Null
             /\ StorageCleared
    /\ EndedWithoutRequest => turn[1].sent = <<>>
    /\ \A r \in SentNow :
          r.op = "endSession" =>
              /\ r.method = "DELETE" /\ r.url = "/api/session"
              /\ turn[1].before.sessionId # Null

\* C5 witness: the DELETE failed with a server error while a session was
\* held and persisted, and the session is gone.
C5_Witness ==
    /\ Answered
    /\ turn[1].req[1].op = "endSession"
    /\ turn[1].resp[1].status = 500
    /\ turn[1].before.sessionId # Null
    /\ turn[1].before.localStorage.session_id # Null
    /\ sessionId = Null
    /\ StorageCleared

\* the body of the failure carries a message
HasMessage(resp) ==
    /\ resp.status # 0
    /\ resp.detail # Null
    /\ resp.detail[1] # ""

PassThroughOps ==
    {"startSession", "startAutomation", "getJobStatus", "getUserJobs",
     "cancelJob"}

\* C6 as claimed: every operation other than endSession rejects a failed
\* request with the server's message when the body carries one and with
\* its fixed fallback message otherwise.
C6_FailureCarriesServerMessage ==
    (Answered /\ turn[1].req[1].op # "endSession" /\ ~IsOk(turn[1].resp[1]))
    => turn[1].thrown =
          IF HasMessage(turn[1].resp[1])
          THEN turn[1].resp[1].detail
          ELSE <<Fallback(turn[1].req[1].op)>>

\* C6 as amended: startSession, startAutomation, getJobStatus, getUserJobs
\* and cancelJob reject a failed request with the server's message when the
\* body carries a non-empty one and with their fixed fallback message
\* otherwise; getPrivacyPolicy and healthCheck reject it with their fixed
\* message whatever the body carries.
C6_FailureMessagePerOperation ==
    (Answered /\ turn[1].req[1].op # "endSession" /\ ~IsOk(turn[1].resp[1]))
    => /\ turn[1].settled
       /\ turn[1].thrown =
             IF turn[1].req[1].op \in PassThroughOps
                /\ HasMessage(turn[1].resp[1])
             THEN turn[1].resp[1].detail
             ELSE <<Fallback(turn[1].req[1].op)>>

\* C6 witness: getPrivacyPolicy failed with a message in the body and
\* rejected with its fixed message.
C6_Witness ==
    /\ Answered
    /\ turn[1].req[1].op = "getPrivacyPolicy"
    /\ turn[1].resp[1].status = 500
    /\ turn[1].resp[1].detail = <<"Invalid or expired session">>
    /\ turn[1].thrown = <<"Failed to load privacy policy">>

\* the handler run displayed the answer of a job-list fetch of the mounted
\* dashboard
JobsAnswered ==
    /\ Answered
    /\ turn[1].req[1].caller = "loadJobs"

\* C7: a job-list fetch of the dashboard that the backend answers with
\* 401 shows no notification.
C7_UnauthorizedFetchShowsNoToast ==
    (JobsAnswered /\ turn[1].resp[1].status = Unauthorized)
    => turn[1].toasts = <<>>

\* creation times never increase along the list
IsSortedDesc(l) ==
    \A i \in 1..(Len(l) - 1) :
        DateGetTime[l[i].created_at] >= DateGetTime[l[i + 1].created_at]

\* the number of times job j occurs in list l
Count(j, l) == Cardinality({i \in 1..Len(l) : l[i] = j})

IsPermutation(l, m) ==
    /\ Len(l) = Len(m)
    /\ \A j \in Jobs : Count(j, l) = Count(j, m)

JobsDisplayed ==
    /\ JobsAnswered
    /\ turn[1].req[1].live
    /\ IsOk(turn[1].resp[1])

\* C8: right after a successful job-list fetch of the mounted dashboard
\* the displayed list is ordered by created_at descending and is a
\* permutation of the jobs of that response.
C8_DisplayedJobsSortedDescending ==
    JobsDisplayed =>
        /\ IsSortedDesc(dash.jobs)
        /\ IsPermutation(dash.jobs, turn[1].resp[1].jobs)

\* C8 witness: the response listed an older job before a newer one and
\* the displayed list has them in descending order.
C8_Witness ==
    /\ JobsDisplayed
    /\ Len(dash.jobs) = 2
    /\ ~IsSortedDesc(turn[1].resp[1].jobs)
    /\ IsSortedDesc(dash.jobs)
    /\ dash.jobs # turn[1].resp[1].jobs

\* C9: every successful job-list answer to the mounted dashboard replaces
\* the displayed list with its own sorted result, also when a request
\* issued after it was answered before it; every other handler run of the
\* mounted dashboard leaves the displayed list as it was.  So the list is
\* that of the successful fetch that resolved last.
C9_LastResolvedFetchWins ==
    /\ JobsDisplayed => dash.jobs = SortJobs(turn[1].resp[1].jobs)
    /\ (InTurn /\ ~JobsDisplayed
        /\ turn[1].act \notin {"GoTo", "RedirectTimeout", "Reload"})
          => dash.jobs = turn[1].before.dash.jobs

\* C9 witness: the answer to an earlier request arrived after the answer
\* to a later one had been displayed, and replaced it.
C9_Witness ==
    /\ JobsDisplayed
    /\ turn[1].req[1].overtaken
    /\ dash.jobs = SortJobs(turn[1].resp[1].jobs)
    /\ dash.jobs # turn[1].before.dash.jobs

\* the handler run sent exactly one job-list fetch
SentOneFetch(via) ==
    /\ Len(turn[1].sent) = 1
    /\ turn[1].sent[1].op = "getUserJobs"
    /\ turn[1].sent[1].url = "/api/jobs"
    /\ turn[1].sent[1].caller = "loadJobs"
    /\ turn[1].sent[1].via = via

\* C10: mounting the dashboard with a session held sends one job-list
\* fetch and starts the timer; every tick sends one fetch; the timer stays
\* on through every handler run that does not unmount the page, and a tick
\* can fire whenever it is on (up to the bound on requests in flight),
\* whatever is refreshing, failed or in flight; once the page is not
\* mounted the timer is off and no tick can fire.
C10_PollingUntilUnmount ==
    /\ (InTurn /\ turn[1].act = "GoTo" /\ page = "dashboard"
        /\ IsAuthenticated(sessionId))
          => SentOneFetch("mount") /\ dash.interval
    /\ (InTurn /\ turn[1].act = "Tick")
          => SentOneFetch("tick") /\ page = "dashboard" /\ dash.interval
    /\ (InTurn /\ turn[1].act \notin {"GoTo", "RedirectTimeout", "Reload"})
          => dash.interval = turn[1].before.dash.interval
    /\ (Idle /\ dash.interval /\ Room) => ENABLED Tick
    /\ page # "dashboard" => ~dash.interval /\ ~ENABLED Tick

\* C10 witness: a tick sent its fetch while a manual refresh was still in
\* flight.
C10_Witness ==
    /\ InTurn
    /\ turn[1].act = "Tick"
    /\ dash.refreshing
    /\ \E k \in 1..Len(inflight) : inflight[k].via = "refresh"
    /\ SentOneFetch("tick")

\* C11 as claimed: a job-list fetch of the dashboard that fails with
\* anything but a 401 (no response, timeout, error status) shows exactly
\* one error notification and leaves the displayed list as it was.
C11_FailedFetchShowsOneToast ==
    (JobsAnswered /\ ~IsOk(turn[1].resp[1])
     /\ turn[1].resp[1].status # Unauthorized)
    => /\ turn[1].toasts = <<Toast("error", "Failed to load jobs")>>
       /\ dash.jobs = turn[1].before.dash.jobs

\* the request stays in flight, as the request of a component that is gone
StaysInFlight(r) ==
    \E m \in 1..Len(inflight') : inflight'[m] = [r EXCEPT !.live = FALSE]

\* the dashboard is replaced by another page of the application
DashboardUnmounts ==
    /\ page = "dashboard"
    /\ page' \in {"home", "privacy"}

DashboardMounted ==
    /\ InTurn
    /\ turn[1].act \in {"GoTo", "RedirectTimeout"}
    /\ page = "dashboard"

\* C13: a dashboard mounted while isAuthenticated() is false pushes the
\* landing page's route, sends no request and starts no timer: no tick
\* can fire.
C13_UnauthenticatedMountRedirects ==
    (DashboardMounted /\ ~IsAuthenticated(sessionId))
    => /\ turn[1].pushed = <<"/">>
       /\ turn[1].sent = <<>>
       /\ ~dash.interval
       /\ ~ENABLED Tick

\* C13 witness: the dashboard was mounted with no session id in memory
\* and none persisted.
C13_Witness ==
    /\ DashboardMounted
    /\ sessionId = Null
    /\ localStorage.session_id = Null
    /\ turn[1].pushed = <<"/">>
    /\ turn[1].sent = <<>>

\* the handler run was a submission of the landing form
Submitted == InTurn /\ turn[1].act = "Submit"

\* C14: a submission of the landing form while no category is selected,
\* after any sequence of toggles, sends no request and runs nothing of
\* onSubmit; so every start-session request of a submission was sent with
\* a category selected.
C14_NoCategoriesNoRequest ==
    /\ (Submitted /\ home.categories = <<>>) =>
          /\ turn[1].sent = <<>>
          /\ home = turn[1].before.home
    /\ Submitted =>
          \A r \in SentNow :
              r.url \in {"/api/start-session", "/api/start-automation"}
              => home.categories # <<>>

\* C14 witness: the form was submitted with valid credentials after the
\* four default categories had been unticked, and nothing was sent.
C14_Witness ==
    /\ Submitted
    /\ home.categories = <<>>
    /\ ~home.loading
    /\ turn[1].form[1].pinterest_token = "tok"
    /\ turn[1].form[1].amazon_tag = "me-20"
    /\ turn[1].form[1].session_password = "12345678"
    /\ turn[1].sent = <<>>

\* the form data the claim speaks of: a password under 8 characters, or
\* one of the three inputs empty
Rejected(form) ==
    \/ Len(form.session_password) < 8
    \/ form.pinterest_token = ""
    \/ form.amazon_tag = ""
    \/ form.session_password = ""

\* C15: a submission of the landing form with a session password under 8
\* characters, or with pinterest_token, amazon_tag or session_password
\* empty, does not run onSubmit (loading is not set) and sends no request.
C15_InvalidFormNoRequest ==
    (Submitted /\ Rejected(turn[1].form[1])) =>
        /\ turn[1].sent = <<>>
        /\ home = turn[1].before.home
        /\ turn[1].toasts = <<>>

\* C15 witness: the form was submitted with a 7-character password, the
\* other inputs filled, categories selected and the button enabled, and
\* nothing was sent.
C15_Witness ==
    /\ Submitted
    /\ turn[1].form[1].session_password = "1234567"
    /\ turn[1].form[1].pinterest_token # ""
    /\ turn[1].form[1].amazon_tag # ""
    /\ ~SubmitDisabled(home)
    /\ turn[1].sent = <<>>
    /\ inflight = <<>>

\* C16: in every state reached by startSession, endSession and 401
\* answers in any order, the keys session_id and encrypted_credentials
\* are both present or both absent.
C16_KeysWrittenAndClearedTogether ==
    (localStorage.session_id = Null)
        <=> (localStorage.encrypted_credentials = Null)

\* C16 witness: startSession resolved while nothing was persisted and
\* both keys are present.
C16_Witness ==
    /\ Answered
    /\ turn[1].req[1].op = "startSession"
    /\ IsOk(turn[1].resp[1])
    /\ turn[1].before.localStorage = EmptyStorage
    /\ localStorage.session_id # Null
    /\ localStorage.encrypted_credentials # Null

SideEffectFreeOps ==
    {"startAutomation", "getJobStatus", "getUserJobs", "cancelJob",
     "getPrivacyPolicy", "healthCheck"}

\* the session in memory and in the store is the one the run found
SessionUntouched ==
    /\ sessionId = turn[1].before.sessionId
    /\ localStorage = turn[1].before.localStorage

\* C17: an answer other than a 401, success or failure, to startAutomation,
\* getJobStatus, getUserJobs, cancelJob, getPrivacyPolicy or healthCheck
\* leaves the session id and both persisted keys as they were; so does a
\* failure other than a 401 of startSession.
C17_NoLocalSideEffect ==
    (Answered /\ turn[1].resp[1].status # Unauthorized) =>
        /\ turn[1].req[1].op \in SideEffectFreeOps => SessionUntouched
        /\ (turn[1].req[1].op = "startSession" /\ ~IsOk(turn[1].resp[1]))
              => SessionUntouched

\* C17 witness: startSession failed with a server error while a session
\* was held and persisted, and the session is still held.
C17_Witness ==
    /\ Answered
    /\ turn[1].req[1].op = "startSession"
    /\ turn[1].resp[1].status = 500
    /\ turn[1].before.sessionId = <<"s1">>
    /\ sessionId = <<"s1">>
    /\ localStorage.session_id = <<"s1">>
    /\ localStorage.encrypted_credentials # Null

\* the non-empty values the user may type into the three inputs
Cleartext ==
    UNION { {f.pinterest_token, f.amazon_tag, f.session_password} :
            f \in Forms } \ {""}

\* C18: no value typed into the form is in the persisted store: the store
\* holds nothing, or the session_id and the encrypted_credentials of a
\* start-session response; a run that answers startSession successfully
\* stores the two values of its response, and no other run adds a value.
C18_CleartextNeverPersisted ==
    /\ \A key \in {"session_id", "encrypted_credentials"} :
          localStorage[key] # Null => localStorage[key][1] \notin Cleartext
    /\ localStorage.session_id # Null
          => localStorage.session_id[1] \in SessionIds
    /\ localStorage.encrypted_credentials # Null
          => localStorage.encrypted_credentials[1] \in EncBlobs
    /\ InTurn =>
          \/ localStorage = turn[1].before.localStorage
          \/ localStorage = EmptyStorage
          \/ /\ Answered
             /\ turn[1].req[1].op = "startSession"
             /\ IsOk(turn[1].resp[1])
             /\ localStorage.session_id = <<turn[1].resp[1].session_id>>
             /\ localStorage.encrypted_credentials
                   = <<turn[1].resp[1].encrypted_credentials>>

\* C18 witness: the start-session request of a submitted form, carrying the
\* typed credentials, was answered and the store holds the two values of
\* the response.
C18_Witness ==
    /\ Answered
    /\ turn[1].req[1].op = "startSession"
    /\ turn[1].req[1].caller = "onSubmit"
    /\ turn[1].req[1].body # Null
    /\ turn[1].req[1].body[1].session_password = "12345678"
    /\ IsOk(turn[1].resp[1])
    /\ turn[1].before.localStorage = EmptyStorage
    /\ localStorage.session_id = <<"s2">>
    /\ localStorage.encrypted_credentials = <<"enc1">>

\* the answered request was sent under another session, or under none,
\* than the one held when its answer arrived
SentUnderOtherSession ==
    /\ Answered
    /\ turn[1].before.sessionId # Null
    /\ turn[1].req[1].auth # AuthHeader(turn[1].before.sessionId)

\* C19: a 401 answer to a request sent under an older session, or under
\* none, clears the session held when the answer is handled: the session
\* id is null, both keys are absent and isAuthenticated() is false.
C19_StaleUnauthorizedClearsNewSession ==
    (SentUnderOtherSession /\ turn[1].resp[1].status = Unauthorized) =>
        /\ sessionId = Null
        /\ StorageCleared
        /\ ~IsAuthenticated(sessionId)

\* C19 witness: a request sent under session s1 was answered 401 after
\* startSession had installed and persisted s2, and s2 is gone.
C19_Witness ==
    /\ SentUnderOtherSession
    /\ turn[1].resp[1].status = Unauthorized
    /\ turn[1].req[1].auth = <<"Bearer s1">>
    /\ turn[1].before.sessionId = <<"s2">>
    /\ turn[1].before.localStorage.session_id = <<"s2">>
    /\ sessionId = Null
    /\ StorageCleared

\* C20: in every state, also right after a reload has constructed a new
\* client, a session id is held in memory iff the key session_id is
\* persisted, and the two are equal.
C20_MemoryMatchesStore ==
    sessionId = localStorage.session_id

\* the handler run resumed onSubmit with the answer to the request of op
OnSubmitAnswered(op) ==
    /\ Answered
    /\ turn[1].req[1].caller = "onSubmit"
    /\ turn[1].req[1].op = op

\* the handler run sent a start-automation request
AutomationSent ==
    \E r \in SentNow : r.url = "/api/start-automation"

\* a submission sends the start-session request and nothing else; the
\* start-automation request is sent by the run that resumes onSubmit with
\* a successful start-session answer, by it alone, with the credentials of
\* the submission; a failed startSession sends nothing and pushes no route
SubmissionOrder ==
    /\ Submitted =>
          \A r \in SentNow :
              /\ r.url = "/api/start-session"
              /\ Len(turn[1].sent) = 1
    /\ (InTurn /\ AutomationSent) =>
          /\ OnSubmitAnswered("startSession")
          /\ IsOk(turn[1].resp[1])
    /\ (OnSubmitAnswered("startSession") /\ IsOk(turn[1].resp[1])) =>
          /\ Len(turn[1].sent) = 1
          /\ AutomationSent
          /\ turn[1].sent[1].body = turn[1].req[1].body
    /\ (OnSubmitAnswered("startSession") /\ ~IsOk(turn[1].resp[1])) =>
          /\ turn[1].sent = <<>>
          /\ turn[1].pushed = <<>>
    /\ OnSubmitAnswered("startAutomation") =>
          /\ turn[1].sent = <<>>
          /\ turn[1].pushed = <<>>

\* the redirect timer is started only by the run that resumes onSubmit
\* with a successful start-automation answer
RedirectOnlyAfterBoth ==
    (redirectTimer' /\ ~redirectTimer) =>
        /\ turn' # <<>>
        /\ turn'[1].req # <<>>
        /\ turn'[1].req[1].caller = "onSubmit"
        /\ turn'[1].req[1].op = "startAutomation"
        /\ IsOk(turn'[1].resp[1])

\* C21 as claimed: start-session goes first, start-automation follows only
\* its success, a failed startSession sends nothing more and redirects
\* nowhere, the redirect is scheduled only after both succeeded, and after
\* any failure of startAutomation the session is still held.
C21_SessionKeptAfterAnyAutomationFailure ==
    /\ [](SubmissionOrder)
    /\ []( (OnSubmitAnswered("startAutomation") /\ ~IsOk(turn[1].resp[1]))
           => /\ sessionId = turn[1].before.sessionId
              /\ localStorage = turn[1].before.localStorage )
    /\ [][RedirectOnlyAfterBoth]_vars

\* C21 as amended: as claimed, except that the session is still held after
\* a failure of startAutomation other than a 401, and is cleared from
\* memory and store by a 401.
C21_SubmissionSequence ==
    /\ [](SubmissionOrder)
    /\ []( (OnSubmitAnswered("startAutomation") /\ ~IsOk(turn[1].resp[1]))
           => IF turn[1].resp[1].status = Unauthorized
              THEN sessionId = Null /\ StorageCleared
              ELSE /\ sessionId = turn[1].before.sessionId
                   /\ localStorage = turn[1].before.localStorage )
    /\ [][RedirectOnlyAfterBoth]_vars

\* C21 witness: startAutomation failed with a server error after the
\* startSession of the same submission had installed session s2; s2 is
\* still held and persisted and no redirect is scheduled.
C21_Witness ==
    /\ OnSubmitAnswered("startAutomation")
    /\ turn[1].resp[1].status = 500
    /\ turn[1].req[1].auth = <<"Bearer s2">>
    /\ sessionId = <<"s2">>
    /\ localStorage.session_id = <<"s2">>
    /\ ~redirectTimer
    /\ ~home.loading

\* the handler run gave the mounted dashboard a 401 answer to a job-list
\* fetch
PollingUnauthorized ==
    /\ JobsAnswered
    /\ turn[1].req[1].live
    /\ turn[1].resp[1].status = Unauthorized

\* C22: a 401 answer to a job-list fetch of the mounted dashboard clears
\* the session and neither redirects nor stops the timer; while the
\* session id is null and the timer is on, a tick can fire (up to the
\* bound on requests in flight), every tick sends one job-list request
\* with no Authorization header, and only unmounting turns the timer off.
C22_PollingContinuesAfterUnauthorized ==
    /\ PollingUnauthorized =>
          /\ sessionId = Null
          /\ turn[1].pushed = <<>>
          /\ page = "dashboard"
          /\ dash.interval = turn[1].before.dash.interval
    /\ (Idle /\ sessionId = Null /\ dash.interval /\ Room) => ENABLED Tick
    /\ (InTurn /\ turn[1].act = "Tick" /\ sessionId = Null) =>
          /\ SentOneFetch("tick")
          /\ turn[1].sent[1].auth = Null
          /\ turn[1].pushed = <<>>
    /\ (InTurn /\ sessionId = Null
        /\ turn[1].act \notin {"GoTo", "RedirectTimeout", "Reload"})
          => dash.interval = turn[1].before.dash.interval

\* C22 witness: a fetch sent by a tick under session s1 was answered 401;
\* the session is gone from memory and store, the dashboard is mounted,
\* its timer is on and no route was pushed.
C22_Witness ==
    /\ PollingUnauthorized
    /\ turn[1].req[1].via = "tick"
    /\ turn[1].req[1].auth = <<"Bearer s1">>
    /\ turn[1].before.sessionId = <<"s1">>
    /\ sessionId = Null
    /\ StorageCleared
    /\ page = "dashboard"
    /\ dash.interval
    /\ turn[1].pushed = <<>>

\* the manual-refresh fetches of the mounted dashboard that are in flight
RefreshesInFlight ==
    {k \in 1..Len(inflight) :
        inflight[k].via = "refresh" /\ inflight[k].live}

\* C23: while a manual-refresh fetch of the mounted dashboard is in
\* flight, refreshing is true and no second manual-refresh fetch is in
\* flight; an answer to a fetch that is not the manual one leaves
\* refreshing true.
C23_RefreshingUntilManualFetchResolves ==
    /\ RefreshesInFlight # {} => dash.refreshing
    /\ Cardinality(RefreshesInFlight) <= 1
    /\ (JobsAnswered /\ turn[1].req[1].live
        /\ turn[1].req[1].via # "refresh"
        /\ turn[1].before.dash.refreshing) => dash.refreshing

====
